---- MODULE Spec2Model ----
(***************************************************************************)
(* The computational kernel of frozen-stars: physics.ts and                *)
(* BlackHoleEngine.ts.  The kernel computes on JavaScript numbers, so the  *)
(* model carries a decimal floating-point number type with the special     *)
(* values of an IEEE double (+Infinity, -Infinity, NaN), a six digit       *)
(* mantissa and the exponent range of a double.  Every arithmetic          *)
(* operation rounds its result to the mantissa, overflows to an infinity   *)
(* and underflows to zero, as the operations of the program do.            *)
(***************************************************************************)
EXTENDS Integers, Sequences, FiniteSets, TLC

\* ------------------------------------------------------------------------
\* Numbers: value = m * 10^e, with m = 0 or MantMin <= |m| < MantMax.
\* ------------------------------------------------------------------------
MantMin == 10^5
MantMax == 10^6
\* the largest finite value is 179769 * 10^ExpMax (Number.MAX_VALUE is
\* 1.79769...e308), the smallest positive one is 10^-324
ExpMax == 308 - 5
ExpMin == (-324) - 5

NaN == [k |-> "nan", m |-> 0, e |-> 0]
PosInf == [k |-> "inf", m |-> 1, e |-> 0]
NegInf == [k |-> "inf", m |-> -1, e |-> 0]
Zero == [k |-> "fin", m |-> 0, e |-> 0]

Abs(i) == IF i < 0 THEN -i ELSE i
Sgn(i) == IF i < 0 THEN -1 ELSE IF i = 0 THEN 0 ELSE 1

NumDigits(n) ==
  IF n < 10 THEN 1 ELSE IF n < 100 THEN 2 ELSE IF n < 1000 THEN 3
  ELSE IF n < 10^4 THEN 4 ELSE IF n < 10^5 THEN 5 ELSE IF n < 10^6 THEN 6
  ELSE IF n < 10^7 THEN 7 ELSE IF n < 10^8 THEN 8 ELSE IF n < 10^9 THEN 9
  ELSE 10

\* signed division rounding half away from zero
RoundDiv(i, d) == Sgn(i) * ((Abs(i) + d \div 2) \div d)

\* the number of sign s, mantissa q and exponent ex: beyond Number.MAX_VALUE
\* it is an infinity, below the smallest exponent it is 0
Pack(s, q, ex) ==
  IF ex > ExpMax \/ (ex = ExpMax /\ q > 179769)
  THEN (IF s < 0 THEN NegInf ELSE PosInf)
  ELSE IF ex < ExpMin THEN Zero
  ELSE [k |-> "fin", m |-> s * q, e |-> ex]

\* a mantissa that rounding carried to seven digits
Carry(s, q0, ex) ==
  IF q0 = MantMax THEN Pack(s, MantMin, ex + 1) ELSE Pack(s, q0, ex)

\* mag shifted by sh digits, the last digit rounded half up
Shift(s, mag, e, sh) ==
  Carry(s,
        IF sh > 0 THEN (mag + 5 * 10^(sh - 1)) \div 10^sh ELSE mag * 10^(-sh),
        e + sh)

\* round the integer mag * 10^e, of sign s, to the mantissa
Norm(s, mag, e) ==
  IF mag = 0 THEN Zero ELSE Shift(s, mag, e, NumDigits(mag) - 6)

NormS(i, e) == Norm(Sgn(i), Abs(i), e)

\* a number literal m * 10^e
Num(m, e) == NormS(m, e)

IsNaN(a) == a.k = "nan"
isFinite(a) == a.k = "fin"

\* comparisons: every comparison with NaN is false
Less(a, b) ==
  IF a.k = "inf" THEN a.m < 0 /\ b # NegInf
  ELSE IF b.k = "inf" THEN b.m > 0
  ELSE IF Sgn(a.m) # Sgn(b.m) THEN Sgn(a.m) < Sgn(b.m)
  ELSE IF a.m = 0 THEN FALSE
  ELSE IF a.m > 0 THEN a.e < b.e \/ (a.e = b.e /\ a.m < b.m)
  ELSE a.e > b.e \/ (a.e = b.e /\ a.m < b.m)

Lt(a, b) == ~IsNaN(a) /\ ~IsNaN(b) /\ Less(a, b)
Eq(a, b) == ~IsNaN(a) /\ ~IsNaN(b) /\ a = b
Le(a, b) == Lt(a, b) \/ Eq(a, b)
Gt(a, b) == Lt(b, a)
Ge(a, b) == Le(b, a)

Neg(a) == IF IsNaN(a) THEN NaN ELSE [a EXCEPT !.m = -a.m]

\* hi + lo for finite non-zero numbers whose exponents differ by d >= 0
AddOrdered(hi, lo, d) ==
  IF d >= 9 THEN hi
  ELSE IF d <= 3 THEN NormS(hi.m * 10^d + lo.m, lo.e)
  ELSE NormS(hi.m * 1000 + RoundDiv(lo.m, 10^(d - 3)), hi.e - 3)

Add(a, b) ==
  IF IsNaN(a) \/ IsNaN(b) THEN NaN
  ELSE IF a.k = "inf" THEN (IF b.k = "inf" /\ b.m # a.m THEN NaN ELSE a)
  ELSE IF b.k = "inf" THEN b
  ELSE IF a.m = 0 THEN b
  ELSE IF b.m = 0 THEN a
  ELSE IF a.e >= b.e THEN AddOrdered(a, b, a.e - b.e)
  ELSE AddOrdered(b, a, b.e - a.e)

Sub(a, b) == Add(a, Neg(b))

\* the first eight digits of the product of the mantissas
\* xh * 1000 + xl and yh * 1000 + yl
MulParts(xh, xl, yh, yl) ==
  xh * yh * 100 + ((xh * yl + xl * yh) * 1000 + xl * yl) \div 10^4

MulMantissas(x, y) == MulParts(x \div 1000, x % 1000, y \div 1000, y % 1000)

Mul(a, b) ==
  IF IsNaN(a) \/ IsNaN(b) THEN NaN
  ELSE IF a.m = 0 \/ b.m = 0
    THEN (IF a.k = "inf" \/ b.k = "inf" THEN NaN ELSE Zero)
  ELSE IF a.k = "inf" \/ b.k = "inf"
    THEN (IF Sgn(a.m) * Sgn(b.m) < 0 THEN NegInf ELSE PosInf)
  ELSE Norm(Sgn(a.m) * Sgn(b.m), MulMantissas(Abs(a.m), Abs(b.m)),
            a.e + b.e + 4)

RECURSIVE LongDiv(_, _, _, _)
LongDiv(r, d, n, acc) ==
  IF n = 0 THEN acc
  ELSE LongDiv((r % d) * 10, d, n - 1, acc * 10 + (r \div d))

Div(a, b) ==
  IF IsNaN(a) \/ IsNaN(b) THEN NaN
  ELSE IF a.k = "inf"
    THEN (IF b.k = "inf" THEN NaN
          ELSE IF a.m * (IF b.m < 0 THEN -1 ELSE 1) < 0 THEN NegInf ELSE PosInf)
  ELSE IF b.k = "inf" THEN Zero
  ELSE IF b.m = 0
    THEN (IF a.m = 0 THEN NaN ELSE IF a.m < 0 THEN NegInf ELSE PosInf)
  ELSE IF a.m = 0 THEN Zero
  ELSE Norm(Sgn(a.m) * Sgn(b.m), LongDiv(Abs(a.m), Abs(b.m), 8, 0),
            a.e - b.e - 7)

Max(a, b) == IF IsNaN(a) \/ IsNaN(b) THEN NaN ELSE IF Less(a, b) THEN b ELSE a
Min(a, b) == IF IsNaN(a) \/ IsNaN(b) THEN NaN ELSE IF Less(b, a) THEN b ELSE a

\* 1, 2, 10
One == [k |-> "fin", m |-> 100000, e |-> -5]
Two == [k |-> "fin", m |-> 200000, e |-> -5]
Ten == [k |-> "fin", m |-> 100000, e |-> -4]

\* hi * 10^6 + lo <= th * 10^6 + tl, for lo < 2 * 10^9 and tl < 10^6
PairLe(hi, lo, th, tl) ==
  hi + lo \div 10^6 < th \/ (hi + lo \div 10^6 = th /\ lo % 10^6 <= tl)

\* x * x <= th * 10^6 + tl, for x = xh * 1000 + xl < 10^6 and th < 10^7
SquarePartsLe(xh, xl, th, tl) ==
  PairLe(xh * xh, 2 * xh * xl * 1000 + xl * xl, th, tl)

SquareLe(x, th, tl) == SquarePartsLe(x \div 1000, x % 1000, th, tl)

\* largest x in lo..hi with x * x <= th * 10^6 + tl
RECURSIVE IntSqrt(_, _, _, _)
RECURSIVE IntSqrtAt(_, _, _, _, _)
IntSqrtAt(th, tl, lo, hi, mid) ==
  IF SquareLe(mid, th, tl) THEN IntSqrt(th, tl, mid, hi)
  ELSE IntSqrt(th, tl, lo, mid - 1)

IntSqrt(th, tl, lo, hi) ==
  IF lo >= hi THEN lo ELSE IntSqrtAt(th, tl, lo, hi, (lo + hi + 1) \div 2)

\* Math.sqrt, the root truncated to the mantissa
Sqrt(a) ==
  IF IsNaN(a) \/ a.m < 0 THEN NaN
  ELSE IF a.k = "inf" \/ a.m = 0 THEN a
  ELSE IF a.e % 2 = 0
    THEN Norm(1, IntSqrt(a.m, 0, 10^5, 10^6 - 1), (a.e \div 2) - 3)
  ELSE Norm(1, IntSqrt(a.m \div 10, (a.m % 10) * 10^5, 10^5, 10^6 - 1),
            (a.e - 5) \div 2)

\* Working precision of Math.log10 and Math.pow: mantissas of eight digits,
\* x in [10^7, 10^8) standing for x / 10^7 in [1, 10), in a pair
\* <<mantissa, exponent>>.
WidePack(v, e) == IF v >= 10^8 THEN <<v \div 10, e + 1>> ELSE <<v, e>>

WideParts(ph, pl, qh, ql) ==
  ph * qh * 10 + ((ph * ql + pl * qh) + (pl * ql) \div 10^4) \div 1000

\* the product of two pairs
WideMul(p, q) ==
  WidePack(WideParts(p[1] \div 10^4, p[1] % 10^4, q[1] \div 10^4, q[1] % 10^4),
           p[2] + q[2])

WideSquare(p) == WideMul(p, p)

\* y2^5
FifthPower(y2) == WideMul(WideSquare(WideSquare(y2)), y2)

\* y^10 for a mantissa y
TenthPower(y) == FifthPower(WideSquare(<<y, 0>>))

\* the first n decimal digits of log10(y / 10^7)
RECURSIVE LogDigits(_, _, _)
RECURSIVE LogDigitsAfter(_, _, _)
LogDigitsAfter(p, n, acc) == LogDigits(p[1], n - 1, acc * 10 + p[2])

LogDigits(y, n, acc) ==
  IF n = 0 THEN acc ELSE LogDigitsAfter(TenthPower(y), n, acc)

\* Math.log10
Log10(a) ==
  IF IsNaN(a) \/ a.m < 0 THEN NaN
  ELSE IF a.k = "inf" THEN PosInf
  ELSE IF a.m = 0 THEN NegInf
  ELSE NormS((a.e + 5) * 10^6 + (LogDigits(a.m * 100, 7, 0) + 5) \div 10, -6)

\* 10^(d / 10^j) for j = 1..6 and d = 0..9, as mantissas of eight digits
PowTable ==
  << <<10000000, 12589254, 15848932, 19952623, 25118864, 31622777, 39810717, 50118723, 63095734, 79432823>>,
     <<10000000, 10232930, 10471285, 10715193, 10964782, 11220185, 11481536, 11748976, 12022644, 12302688>>,
     <<10000000, 10023052, 10046158, 10069317, 10092529, 10115795, 10139114, 10162487, 10185914, 10209395>>,
     <<10000000, 10002303, 10004606, 10006910, 10009215, 10011520, 10013825, 10016131, 10018438, 10020745>>,
     <<10000000, 10000230, 10000461, 10000691, 10000921, 10001151, 10001382, 10001612, 10001842, 10002073>>,
     <<10000000, 10000023, 10000046, 10000069, 10000092, 10000115, 10000138, 10000161, 10000184, 10000207>> >>

\* 10^(d / 10^j) for the decimal digit j of f
PowDigit(f, j) == <<PowTable[j][((f \div 10^(6 - j)) % 10) + 1], 0>>

\* 10^(f / 10^6) for the decimal digits j..6 of f, 0 <= f < 10^6
RECURSIVE PowFrac(_, _)
PowFrac(f, j) ==
  IF j = 6 THEN PowDigit(f, j) ELSE WideMul(PowDigit(f, j), PowFrac(f, j + 1))

\* 10^ip times the pair p
PowPack(p, ip) == Norm(1, p[1], p[2] + ip - 7)

\* 10^(x6 / 10^6)
PowFixed(x6) == PowPack(PowFrac(x6 % 10^6, 1), x6 \div 10^6)

\* Math.pow(10, x)
Pow10(x) ==
  IF IsNaN(x) THEN NaN
  ELSE IF x.k = "inf" THEN (IF x.m > 0 THEN PosInf ELSE Zero)
  ELSE IF x.m = 0 THEN One
  ELSE IF x.e >= -2 THEN (IF x.m > 0 THEN PosInf ELSE Zero)
  ELSE PowFixed(IF x.e >= -6 THEN x.m * 10^(x.e + 6)
                ELSE IF x.e < -15 THEN 0
                ELSE RoundDiv(x.m, 10^(-6 - x.e)))

\* Math.LN10
LN10 == [k |-> "fin", m |-> 230259, e |-> -5]

\* ------------------------------------------------------------------------
\* physics.ts.  A local constant of the source that is read more than once is
\* the parameter of an operator of its own, named after what follows it.
\* ------------------------------------------------------------------------
nToRadius(n) == Add(One, Pow10(Neg(n)))

radiusToN(r, rs) ==
  IF Le(r, rs) THEN PosInf
  ELSE Neg(Log10(Div(Sub(r, rs), rs)))

\* fallingN with the logarithm added
fallingNReversed(tau, nStart, tauMax) ==
  IF Le(tau, Zero) THEN nStart
  ELSE IF Ge(tau, tauMax) THEN PosInf
  ELSE Add(nStart, Log10(Sub(One, Div(tau, tauMax))))

fallingN(tau, nStart, tauMax) ==
  IF Le(tau, Zero) THEN nStart
  ELSE IF Ge(tau, tauMax) THEN PosInf
  ELSE Sub(nStart, Log10(Sub(One, Div(tau, tauMax))))

\* maxProperTime from rStart on
maxProperTimeFrom(rStart) == Sqrt(Div(Mul(Mul(rStart, rStart), rStart), One))

maxProperTime(nStart) == maxProperTimeFrom(nToRadius(nStart))

coordinateTime(n, nStart) ==
  IF ~isFinite(n) THEN PosInf
  ELSE Sub(Pow10(n), Pow10(nStart))

\* Math.sqrt(1 - 1 / rObserver), the rate of a clock at rest at nObserver
clockRate(nObserver) == Sqrt(Sub(One, Div(One, nToRadius(nObserver))))

\* stationaryProperTime without its test of t
stationaryProperTimeUnguarded(t, nObserver) == Mul(t, clockRate(nObserver))

stationaryProperTime(t, nObserver) ==
  IF ~isFinite(t) THEN PosInf
  ELSE Mul(t, clockRate(nObserver))

\* photonN from dt on
photonNAfter(nEmit, dt) ==
  IF Le(dt, Zero) THEN nEmit
  ELSE Sub(nEmit, Mul(dt, Div(One, Mul(LN10, Pow10(Max(nEmit, Zero))))))

photonN(nEmit, tEmit, tCurrent) == photonNAfter(nEmit, Sub(tCurrent, tEmit))

\* photonNInward from newRemaining on
photonNInwardLeft(newRemaining) ==
  IF Le(newRemaining, Zero) THEN PosInf
  ELSE Neg(Log10(newRemaining))

\* photonNInward from dt on
photonNInwardAfter(nEmit, dt) ==
  IF Le(dt, Zero) THEN nEmit
  ELSE photonNInwardLeft(Sub(Pow10(Neg(nEmit)), Div(dt, LN10)))

photonNInward(nEmit, tEmit, tCurrent) ==
  photonNInwardAfter(nEmit, Sub(tCurrent, tEmit))

\* ------------------------------------------------------------------------
\* BlackHoleEngine.ts: c is the engine's configuration, this.cfg
\* ------------------------------------------------------------------------
Config(nF, nO) == [nFaller |-> nF, nObserver |-> nO]

\* the constructor's test with > for >=
ConstructorThrowsStrict(c) == Gt(c.nObserver, c.nFaller)

\* the constructor's test: TRUE when it throws
ConstructorThrows(c) == Ge(c.nObserver, c.nFaller)

tauMax(c) == maxProperTime(c.nFaller)

\* tauToNTau from fraction on
tauToNTauOf(fraction) ==
  IF Le(fraction, Zero) THEN PosInf
  ELSE Neg(Log10(fraction))

tauToNTau(c, tau) ==
  IF Ge(tau, tauMax(c)) THEN PosInf
  ELSE IF Le(tau, Zero) THEN Zero
  ELSE tauToNTauOf(Sub(One, Div(tau, tauMax(c))))

nTauToTau(c, nTau) ==
  IF nTau = PosInf THEN tauMax(c)
  ELSE Mul(tauMax(c), Sub(One, Pow10(Neg(Max(Zero, nTau)))))

\* the object returned by getState and getStateByNTau: object1 is the
\* faller's entry, t the coordinate time
SimulationState(c, object1, t) ==
  [object1 |-> object1,
   object2 |-> [n |-> c.nObserver, r |-> nToRadius(c.nObserver),
                tau |-> stationaryProperTime(t, c.nObserver)],
   coordinateTime |-> t,
   atHorizon |-> ~isFinite(object1.n)]

\* getState from nFaller on
getStateAt(c, tau, nFaller) ==
  SimulationState(c, [n |-> nFaller, r |-> nToRadius(nFaller), tau |-> tau],
                  coordinateTime(nFaller, c.nFaller))

getState(c, tau) == getStateAt(c, tau, fallingN(tau, c.nFaller, tauMax(c)))

\* getStateByNTau from nFaller on
getStateByNTauAt(c, nTau, nFaller) ==
  SimulationState(c, [n |-> nFaller, r |-> nToRadius(nFaller),
                      tau |-> nTauToTau(c, nTau), nTau |-> nTau],
                  coordinateTime(nFaller, c.nFaller))

getStateByNTau(c, nTau) == getStateByNTauAt(c, nTau, Add(c.nFaller, nTau))

observerTauToCoordinateTime(c, tauObserver) ==
  Div(tauObserver, clockRate(c.nObserver))

getObserverPhotonN(c, tauEmit, tauCurrent) ==
  photonNInward(c.nObserver, observerTauToCoordinateTime(c, tauEmit),
                observerTauToCoordinateTime(c, tauCurrent))

observerPhotonAtHorizon(c, tauEmit, tauCurrent) ==
  ~isFinite(getObserverPhotonN(c, tauEmit, tauCurrent))

\* fallerNAtCoordinateTime from val on
fallerNAtValue(nStart, val) ==
  IF Le(val, Zero) THEN nStart
  ELSE Log10(val)

fallerNAtCoordinateTime(c, t) ==
  fallerNAtValue(c.nFaller, Add(t, Pow10(c.nFaller)))

\* ------------------------------------------------------------------------
\* getPhotonIntersectDelta, one loop iteration at a time.  A record s holds
\* the locals of the running call; s.pc is the position in the method:
\* "expand" at the head of the while loop, "bisect" at the head of the for
\* loop, "done" after a return.
\* ------------------------------------------------------------------------
MaxAttempts == 100
BisectIterations == 60
\* 1e100
NoConvergence == [k |-> "fin", m |-> 100000, e |-> 95]

IdleSolver ==
  [pc |-> "idle", tEmit |-> Zero, tLow |-> Zero, tHigh |-> Zero,
   attempts |-> 0, i |-> 0, result |-> Zero]

\* the test of both loops: the photon reached or passed the faller
Reached(nPhotonAt, nFallerAt) ==
  ~isFinite(nPhotonAt) \/ Ge(nPhotonAt, nFallerAt)

\* the test of both loops at time t
Caught(c, tEmit, t) ==
  Reached(photonNInward(c.nObserver, tEmit, t), fallerNAtCoordinateTime(c, t))

\* the locals before the while loop
SolverFrom(tEmit) ==
  [pc |-> "expand", tEmit |-> tEmit, tLow |-> tEmit,
   tHigh |-> Add(Mul(tEmit, Two), Ten),
   attempts |-> 0, i |-> 0, result |-> Zero]

SolverStart(c, tauEmit) == SolverFrom(observerTauToCoordinateTime(c, tauEmit))

\* the rest of the while loop's body once tHigh is doubled
Doubled(s, tHigh) ==
  IF Gt(tHigh, NoConvergence) \/ ~isFinite(tHigh)
  THEN [s EXCEPT !.tHigh = tHigh, !.attempts = s.attempts + 1,
                 !.pc = "done", !.result = PosInf]
  ELSE [s EXCEPT !.tHigh = tHigh, !.attempts = s.attempts + 1]

\* the while loop without its cap on the attempts
ExpandStepNoCap(c, s) ==
  IF Caught(c, s.tEmit, s.tHigh)
  THEN [s EXCEPT !.pc = "bisect"]
  ELSE Doubled(s, Mul(s.tHigh, Two))

\* the while loop without the return that follows it
ExpandStepFallsThrough(c, s) ==
  IF s.attempts < MaxAttempts
  THEN IF Caught(c, s.tEmit, s.tHigh)
       THEN [s EXCEPT !.pc = "bisect"]
       ELSE Doubled(s, Mul(s.tHigh, Two))
  ELSE [s EXCEPT !.pc = "bisect"]

\* one pass through the head and the body of the while loop
ExpandStep(c, s) ==
  IF s.attempts < MaxAttempts
  THEN IF Caught(c, s.tEmit, s.tHigh)
       THEN [s EXCEPT !.pc = "bisect"]
       ELSE Doubled(s, Mul(s.tHigh, Two))
  ELSE [s EXCEPT !.pc = "done", !.result = PosInf]

\* the body of the for loop at tMid
Halved(c, s, tMid) ==
  IF Caught(c, s.tEmit, tMid)
  THEN [s EXCEPT !.tHigh = tMid, !.i = s.i + 1]
  ELSE [s EXCEPT !.tLow = tMid, !.i = s.i + 1]

\* the return after the for loop
Delay(c, s, dtCoordinate) ==
  [s EXCEPT !.pc = "done", !.result = Mul(dtCoordinate, clockRate(c.nObserver))]

\* the for loop with the operands of the final subtraction exchanged
BisectStepSwapped(c, s) ==
  IF s.i < BisectIterations
  THEN Halved(c, s, Div(Add(s.tLow, s.tHigh), Two))
  ELSE Delay(c, s, Sub(s.tEmit, s.tHigh))

\* one pass through the head and the body of the for loop, and the return
BisectStep(c, s) ==
  IF s.i < BisectIterations
  THEN Halved(c, s, Div(Add(s.tLow, s.tHigh), Two))
  ELSE Delay(c, s, Sub(s.tHigh, s.tEmit))

SolverStep(c, s) ==
  IF s.pc = "expand" THEN ExpandStep(c, s)
  ELSE IF s.pc = "bisect" THEN BisectStep(c, s)
  ELSE s

RECURSIVE SolverRun(_, _)
SolverRun(c, s) == IF s.pc = "done" THEN s ELSE SolverRun(c, SolverStep(c, s))

\* the whole call
getPhotonIntersectDelta(c, tauEmit) == SolverRun(c, SolverStart(c, tauEmit)).result

\* getPhotonIntersectTau from delta on
getPhotonIntersectTauOf(tauEmit, delta) ==
  IF ~isFinite(delta) THEN PosInf ELSE Add(tauEmit, delta)

getPhotonIntersectTau(c, tauEmit) ==
  getPhotonIntersectTauOf(tauEmit, getPhotonIntersectDelta(c, tauEmit))

\* ------------------------------------------------------------------------
\* Inputs
\* ------------------------------------------------------------------------
\* configuration values -NRange..NRange, and two observers far out
NRange == 2
\* time arguments -TRange..TRange
TRange == 3

\* observers far out, and positions so close to the horizon that their
\* radius rounds to 1
FarN == {Num(-40, 0), Num(-120, 0)}
NearN == {Num(16, 0), Num(17, 0)}

NValues == {Num(k, 0) : k \in -NRange..NRange} \cup FarN \cup NearN

Specials == {NaN, PosInf, NegInf}

\* late and early times
FarTimes == {Num(1, 4), Num(1, 9), Num(1, 20), Num(1, 99), Num(1, 308),
             Num(-5242, -2), Num(-1, 308)}

\* two neighbouring numbers
CloseTimes == {Num(271000, -6), Num(271001, -6)}

\* times just before the faller's proper time tm at the horizon
TimesBefore(tm) ==
  {Mul(tm, Num(999, -3)), Sub(tm, Num(1, -50)), Div(tm, Two)}

TimeValues(c) ==
  {Num(k, 0) : k \in -TRange..TRange}
    \cup TimesBefore(tauMax(c)) \cup FarTimes \cup CloseTimes \cup Specials

\* arguments of nToRadius: the range -5..30 of the coordinate inverse law
ClosenessValues ==
  {Num(k, 0) : k \in -NRange..NRange} \cup {Num(-5, 0), Num(16, 0), Num(30, 0)}

\* emission points and times of a photon, and the times it is asked for
PhotonStarts == {Num(-1, 0), Zero, Num(3, 0)}
EmitTimes == {Zero, One, PosInf}
PhotonTimes == {Num(k, 0) : k \in -TRange..TRange} \cup {Num(1, 9)} \cup Specials

LogTimeValues == {Num(k, 0) : k \in -TRange..TRange}
                   \cup {Num(5, -1), Num(25, 0)} \cup Specials

\* ------------------------------------------------------------------------
\* State: the engine object, the last call with its outcome, and the locals
\* of a running getPhotonIntersectDelta.
\* ------------------------------------------------------------------------
VARIABLES engine, call, ret, solver

\* The App around the kernel (App.vue): the position sliders, the time
\* slider, the photons emitted so far, the id of the photon in flight, the
\* animation flag, and the clock that Date.now() reads.
VARIABLES settings, currentNTau, photons, activePhotonId, isPhotonAnimating, now

\* The playback controls of the sidebar (SimulationControls.vue): their own
\* copy of the log-time, the running flag, the selected speed, the two
\* checkboxes, and the flag that makes the watcher of the prop skip one
\* update.
VARIABLES controls

appVars == <<settings, currentNTau, photons, activePhotonId, isPhotonAnimating, now, controls>>
vars == <<engine, call, ret, solver, appVars>>

\* activePhotonId = null
NoPhoton == 0

NoEngine == [ok |-> FALSE, cfg |-> Config(NaN, NaN)]
NoCall == [op |-> "none", args |-> <<>>]
NoRet == [kind |-> "none"]
Thrown == [kind |-> "error"]
Number(v) == [kind |-> "number", v |-> v]
Snapshot(st) == [kind |-> "snapshot", s |-> st]

\* const selectedSpeed = ref<string>('1us'), the 26th of speedOptions
OneMicrosecond == 26

\* the refs of the App and of the controls as their scripts set them up
AppStart ==
  /\ settings = Config(Zero, Neg(One))
  /\ currentNTau = Zero
  /\ photons = <<>>
  /\ activePhotonId = NoPhoton
  /\ isPhotonAnimating = FALSE
  /\ now = 1
  /\ controls = [currentNTau |-> Zero, isRunning |-> FALSE,
                 selectedSpeed |-> OneMicrosecond, stopOneTickBefore |-> TRUE,
                 autoDownscale |-> TRUE, skipNextPropUpdate |-> FALSE]

Init ==
  /\ engine = NoEngine
  /\ call = NoCall
  /\ ret = NoRet
  /\ solver = IdleSolver
  /\ AppStart

\* no call is running: the kernel is synchronous, one call at a time
Ready == call = NoCall

\* new BlackHoleEngine({nFaller, nObserver})
Construct(nF, nO) ==
  /\ Ready
  /\ call' = [op |-> "constructor", args |-> <<nF, nO>>]
  /\ IF ConstructorThrows(Config(nF, nO))
     THEN engine' = NoEngine /\ ret' = Thrown
     ELSE engine' = [ok |-> TRUE, cfg |-> Config(nF, nO)] /\ ret' = NoRet
  /\ solver' = IdleSolver
  /\ UNCHANGED appVars

\* a method that writes the configuration it reads
QueryWriting(op, args, result) ==
  /\ Ready
  /\ engine.ok
  /\ call' = [op |-> op, args |-> args]
  /\ ret' = result
  /\ solver' = IdleSolver
  /\ engine' = [engine EXCEPT !.cfg = Config(engine.cfg.nFaller, Neg(Ten))]
  /\ UNCHANGED appVars

Query(op, args, result) ==
  /\ Ready
  /\ engine.ok
  /\ call' = [op |-> op, args |-> args]
  /\ ret' = result
  /\ solver' = IdleSolver
  /\ UNCHANGED <<engine, appVars>>

GetState(tau) == Query("getState", <<tau>>, Snapshot(getState(engine.cfg, tau)))

GetStateByNTau(nTau) ==
  Query("getStateByNTau", <<nTau>>, Snapshot(getStateByNTau(engine.cfg, nTau)))

TauToNTau(tau) == Query("tauToNTau", <<tau>>, Number(tauToNTau(engine.cfg, tau)))

NTauToTau(nTau) == Query("nTauToTau", <<nTau>>, Number(nTauToTau(engine.cfg, nTau)))

GetObserverPhotonN(tauEmit, tauCurrent) ==
  Query("getObserverPhotonN", <<tauEmit, tauCurrent>>,
        Number(getObserverPhotonN(engine.cfg, tauEmit, tauCurrent)))

\* a call of an exported function of physics.ts, which needs no engine
PhysicsCall(op, args, result) ==
  /\ Ready
  /\ call' = [op |-> op, args |-> args]
  /\ ret' = Number(result)
  /\ solver' = IdleSolver
  /\ UNCHANGED <<engine, appVars>>

NToRadius(n) == PhysicsCall("nToRadius", <<n>>, nToRadius(n))

PhotonN(nEmit, tEmit, tCurrent) ==
  PhysicsCall("photonN", <<nEmit, tEmit, tCurrent>>,
              photonN(nEmit, tEmit, tCurrent))

PhotonNInward(nEmit, tEmit, tCurrent) ==
  PhysicsCall("photonNInward", <<nEmit, tEmit, tCurrent>>,
              photonNInward(nEmit, tEmit, tCurrent))

\* getPhotonIntersectDelta(tauEmit) is entered
IntersectCall(tauEmit) ==
  /\ Ready
  /\ engine.ok
  /\ call' = [op |-> "getPhotonIntersectDelta", args |-> <<tauEmit>>]
  /\ ret' = NoRet
  /\ solver' = SolverStart(engine.cfg, tauEmit)
  /\ UNCHANGED <<engine, appVars>>

\* one iteration of its loops; the last one returns
IntersectStep ==
  /\ solver.pc \in {"expand", "bisect"}
  /\ solver' = SolverStep(engine.cfg, solver)
  /\ ret' = IF solver'.pc = "done" THEN Number(solver'.result) ELSE NoRet
  /\ UNCHANGED <<engine, call, appVars>>

\* the caller has taken the outcome of the call
Return ==
  /\ call # NoCall
  /\ solver.pc \in {"idle", "done"}
  /\ call' = NoCall
  /\ ret' = NoRet
  /\ solver' = IdleSolver
  /\ UNCHANGED <<engine, appVars>>

\* a call is made only when no call is running
Next ==
  \/ Ready /\ \E nF \in NValues, nO \in NValues : Construct(nF, nO)
  \/ Ready /\ \E tau \in TimeValues(engine.cfg) : GetState(tau)
  \/ Ready /\ \E nTau \in LogTimeValues : GetStateByNTau(nTau)
  \/ Ready /\ \E tau \in TimeValues(engine.cfg) : TauToNTau(tau)
  \/ Ready /\ \E nTau \in LogTimeValues : NTauToTau(nTau)
  \/ Ready /\ \E tauEmit \in {Zero, One}, tauCurrent \in TimeValues(engine.cfg) :
                 GetObserverPhotonN(tauEmit, tauCurrent)
  \/ Ready /\ \E tauEmit \in TimeValues(engine.cfg) : IntersectCall(tauEmit)
  \/ Ready /\ \E n \in ClosenessValues : NToRadius(n)
  \/ Ready /\ \E nEmit \in PhotonStarts, tEmit \in EmitTimes, tCurrent \in PhotonTimes :
                 PhotonN(nEmit, tEmit, tCurrent)
  \/ Ready /\ \E nEmit \in PhotonStarts, tEmit \in EmitTimes, tCurrent \in PhotonTimes :
                 PhotonNInward(nEmit, tEmit, tCurrent)
  \/ IntersectStep
  \/ Return

Spec == Init /\ [][Next]_vars

\* A call that has started runs on: JavaScript runs getPhotonIntersectDelta to
\* completion on its thread.  This is WF_vars(IntersectStep) written out, with
\* ENABLED <<IntersectStep>>_vars replaced by the condition Running that is
\* equivalent to it (SolverStep always changes the solver's state).
FairSpec == Spec /\ ([]<>(solver.pc \notin {"expand", "bisect"}) \/ []<><<IntersectStep>>_vars)

\* ------------------------------------------------------------------------
\* The App (App.vue): photon emission and its animation
\* ------------------------------------------------------------------------
\* Flights shown in full: the photons emitted in one run and the animation
\* frames drawn in it.
MaxPhotons == 2
MaxFrames == 4

\* const delta = 0.01
FrameDelta == Num(1, -2)

\* positions the sliders of the sidebar (from -10 to 2) can be dragged to
FallerSettings == {One}
ObserverSettings == {Neg(Two)}
\* log-times the controls of the sidebar emit
SliderTimes == {Num(5, 0), Num(9, 0)}

\* the photon pushed by emitPhoton; targetReachedAt is left undefined, which
\* "targetReachedAt || 0" reads as 0, as it does NaN
Photon(id, emitNTau, emitObserverTau, nEmit) ==
  [id |-> id, emitNTau |-> emitNTau, emitObserverTau |-> emitObserverTau,
   nEmit |-> nEmit, direction |-> "in", status |-> "traveling",
   currentN |-> nEmit, targetReachedAt |-> NaN]

\* SimulationControls: tauToNTau
controlsTauToNTau(tau, tMax) ==
  IF Ge(tau, tMax) THEN PosInf
  ELSE IF Le(tau, Zero) THEN Zero
  ELSE tauToNTauOf(Sub(One, Div(tau, tMax)))

\* SimulationControls: the body of the watcher of props.currentTau
WatchedNTau(ctl, computedNTau) ==
  IF isFinite(computedNTau) \/ ~isFinite(ctl.currentNTau)
  THEN computedNTau ELSE ctl.currentNTau

\* the watcher of props.currentTau, which runs when the prop has changed
onCurrentTau(ctl, oldTau, newTau, tMax) ==
  IF oldTau = newTau THEN ctl
  ELSE [ctl EXCEPT !.currentNTau = IF ~ctl.isRunning /\ ~ctl.skipNextPropUpdate
                                   THEN WatchedNTau(ctl, controlsTauToNTau(newTau, tMax))
                                   ELSE @,
                   !.skipNextPropUpdate = FALSE]

\* currentNTau.value = nTau
Moved(ctl, nTau) == [ctl EXCEPT !.currentNTau = nTau]

\* emitNTauUpdate, with the watcher that the new value of the App sets off
emitNTauUpdate(ctl, c, oldNTau, nTau) ==
  onCurrentTau([ctl EXCEPT !.skipNextPropUpdate = TRUE],
               nTauToTau(c, oldNTau), nTauToTau(c, nTau), tauMax(c))

\* a button that is never disabled
EmitNeverDisabled == FALSE
\* :disabled="!!activePhotonId"
EmitDisabled == activePhotonId # NoPhoton

\* x || 0
OrZero(x) == IF IsNaN(x) \/ Eq(x, Zero) THEN Zero ELSE x

\* the inbound branch of updatePhotons
Inbound(photon, currentN, fallerN, nTau) ==
  IF Ge(currentN, fallerN)
  THEN [photon EXCEPT !.currentN = currentN, !.status = "reflected",
                      !.direction = "out", !.targetReachedAt = nTau,
                      !.nEmit = fallerN]
  ELSE [photon EXCEPT !.currentN = currentN]

\* the outbound branch of updatePhotons
ReturnStart(c, photon) ==
  getState(c, nTauToTau(c, OrZero(photon.targetReachedAt))).coordinateTime

OutboundN(c, photon, tCurrent) ==
  Sub(photon.nEmit,
      Mul(Sub(tCurrent, ReturnStart(c, photon)),
          Div(One, Mul(LN10, Pow10(Max(photon.nEmit, Zero))))))

Outbound(photon, currentN, nObserverNow) ==
  IF Le(currentN, nObserverNow)
  THEN [photon EXCEPT !.status = "arrived", !.currentN = nObserverNow]
  ELSE [photon EXCEPT !.currentN = currentN]

\* the body of the forEach without its first line, the return for a photon
\* that has arrived
updatePhotonAgain(c, photon, state, nTau, nObserverNow) ==
  IF photon.direction = "in"
  THEN Inbound(photon,
               getObserverPhotonN(c, photon.emitObserverTau, state.object2.tau),
               state.object1.n, nTau)
  ELSE Outbound(photon, OutboundN(c, photon, state.coordinateTime), nObserverNow)

\* the body of the forEach of updatePhotons
updatePhoton(c, photon, state, nTau, nObserverNow) ==
  IF photon.status = "arrived" THEN photon
  ELSE IF photon.direction = "in"
  THEN Inbound(photon,
               getObserverPhotonN(c, photon.emitObserverTau, state.object2.tau),
               state.object1.n, nTau)
  ELSE Outbound(photon, OutboundN(c, photon, state.coordinateTime), nObserverNow)

updatePhotons(c, ps, nTau, nObserverNow) ==
  [i \in DOMAIN ps |->
     updatePhoton(c, ps[i], getStateByNTau(c, nTau), nTau, nObserverNow)]

\* a photon reached the observer in this update
ArrivedIn(before, after) ==
  \E i \in DOMAIN before :
    before[i].status # "arrived" /\ after[i].status = "arrived"

\* photons.value.find(p => p.id === activePhotonId.value)?.status === 'arrived'
ActiveArrived(ps, id) ==
  \E i \in DOMAIN ps :
    /\ ps[i].id = id
    /\ \A j \in 1..(i - 1) : ps[j].id # id
    /\ ps[i].status = "arrived"

kernelVars == <<engine, call, ret, solver>>

\* a click on the Emit Photon button
EmitPhoton ==
  /\ ~EmitDisabled
  /\ Len(photons) < MaxPhotons
  /\ photons' = Append(photons,
                  Photon(now, currentNTau,
                         getStateByNTau(engine.cfg, currentNTau).object2.tau,
                         settings.nObserver))
  /\ activePhotonId' = now
  /\ isPhotonAnimating' = TRUE
  /\ UNCHANGED <<kernelVars, settings, currentNTau, now, controls>>

\* an animation frame at least 33 ms after the last one
animatePhoton ==
  /\ isPhotonAnimating
  /\ currentNTau' = Add(currentNTau, FrameDelta)
  /\ photons' = updatePhotons(engine.cfg, photons, currentNTau', settings.nObserver)
  /\ activePhotonId' = IF ArrivedIn(photons, photons') THEN NoPhoton ELSE activePhotonId
  /\ isPhotonAnimating' = (~ArrivedIn(photons, photons')
                           /\ ~ActiveArrived(photons', activePhotonId'))
  /\ now' = now + 1
  /\ controls' = onCurrentTau(controls, nTauToTau(engine.cfg, currentNTau),
                              nTauToTau(engine.cfg, currentNTau'), tauMax(engine.cfg))
  /\ UNCHANGED <<kernelVars, settings>>

\* the frames of a run of the App
AnimateFrame == now <= MaxFrames /\ animatePhoton

\* the sidebar sets the time: its controls keep nTau and emit it
SetCurrentNTau(nTau) ==
  /\ ~Eq(nTau, currentNTau)
  /\ currentNTau' = nTau
  /\ controls' = emitNTauUpdate(Moved(controls, nTau), engine.cfg, currentNTau, nTau)
  /\ UNCHANGED <<kernelVars, settings, photons, activePhotonId, isPhotonAnimating, now>>

\* the watcher of the two position sliders: a constructor that throws ends
\* the watcher before it replaces the engine and resets the time
Watch(cfg) ==
  /\ settings' = cfg
  /\ IF ConstructorThrows(cfg)
     THEN UNCHANGED <<engine, currentNTau, controls>>
     ELSE /\ engine' = [ok |-> TRUE, cfg |-> cfg]
          /\ currentNTau' = Zero
          /\ controls' = onCurrentTau(controls, nTauToTau(engine.cfg, currentNTau),
                                      Zero, tauMax(cfg))
  /\ UNCHANGED <<call, ret, solver, photons, activePhotonId, isPhotonAnimating, now>>

\* the faller's slider without the clamp
onUpdateFallerUnclamped(value) == value

\* Controls: the faller cannot go below the observer, the observer cannot go
\* above the faller
onUpdateFaller(value) == Max(value, Add(settings.nObserver, Num(1, -1)))
onUpdateObserver(value) == Min(value, Sub(settings.nFaller, Num(1, -1)))

SetFaller(value) ==
  /\ ~Eq(onUpdateFaller(value), settings.nFaller)
  /\ Watch(Config(onUpdateFaller(value), settings.nObserver))

SetObserver(value) ==
  /\ ~Eq(onUpdateObserver(value), settings.nObserver)
  /\ Watch(Config(settings.nFaller, onUpdateObserver(value)))

AppInit ==
  /\ engine = [ok |-> TRUE, cfg |-> Config(Zero, Neg(One))]
  /\ call = NoCall
  /\ ret = NoRet
  /\ solver = IdleSolver
  /\ AppStart

AppNext ==
  \/ EmitPhoton
  \/ AnimateFrame
  \/ \E nTau \in SliderTimes : SetCurrentNTau(nTau)
  \/ \E n \in FallerSettings : SetFaller(n)
  \/ \E n \in ObserverSettings : SetObserver(n)

AppSpec == AppInit /\ [][AppNext]_vars

\* ------------------------------------------------------------------------
\* A photon's flight, frame by frame
\* ------------------------------------------------------------------------
\* the log-time up to which a flight is followed
MaxNTau == 23

\* log-times the time slider is at when the photon is emitted
FlightTimes == {Num(20, 0)}

\* the frames of a flight
FlightFrame == Lt(currentNTau, Num(MaxNTau, 0)) /\ animatePhoton

\* the time slider, moved while no photon is in flight
FlightSlider(nTau) == ~isPhotonAnimating /\ SetCurrentNTau(nTau)

FlightNext ==
  \/ EmitPhoton
  \/ FlightFrame
  \/ \E nTau \in FlightTimes : FlightSlider(nTau)

\* the clock of a frame of a flight: a step moves the clock exactly when it
\* is a frame
FrameTick == isPhotonAnimating /\ Lt(currentNTau, Num(MaxNTau, 0)) /\ now' = now + 1

\* requestAnimationFrame: while the animation is running the next frame is
\* drawn
FlightSpec == AppInit /\ [][FlightNext]_vars /\ WF_now(FrameTick)

\* ------------------------------------------------------------------------
\* physics.ts, the first draft: free fall by proper time, inverted by search
\* ------------------------------------------------------------------------
\* pi / 2
HalfPi == [k |-> "fin", m |-> 157080, e |-> -5]

\* terms of the cosine series and halvings of the arc cosine that give the
\* six digits of the numbers of this module
CosTerms == 8
AcosSteps == 20

RECURSIVE CosSeries(_, _, _, _)
CosNext(x2, term, sum, k) == CosSeries(x2, term, Add(sum, term), k + 1)
CosSeries(x2, term, sum, k) ==
  IF k > CosTerms THEN sum
  ELSE CosNext(x2, Neg(Div(Mul(term, x2), Num((2 * k - 1) * (2 * k), 0))), sum, k)

\* Math.cos on 0..pi/2
Cos(x) == CosSeries(Mul(x, x), One, One, 1)

RECURSIVE AcosBetween(_, _, _, _)
AcosHalf(y, lo, hi, mid, n) ==
  IF Gt(Cos(mid), y) THEN AcosBetween(y, mid, hi, n - 1)
  ELSE AcosBetween(y, lo, mid, n - 1)
AcosBetween(y, lo, hi, n) ==
  IF n = 0 THEN Div(Add(lo, hi), Two)
  ELSE AcosHalf(y, lo, hi, Div(Add(lo, hi), Two), n)

\* Math.acos on 0..1
Acos(y) ==
  IF IsNaN(y) \/ ~isFinite(y) \/ Gt(y, One) \/ Lt(y, Neg(One)) THEN NaN
  ELSE IF Eq(y, One) THEN Zero
  ELSE IF Eq(y, Zero) THEN HalfPi
  ELSE AcosBetween(y, Zero, HalfPi, AcosSteps)

\* sqrt(r0^3 / (4 rs)), the prefactor of both properTime and maxProperTime
FallPrefactor(r0, rs) ==
  Sqrt(Div(Mul(Mul(r0, r0), r0), Mul(Num(4, 0), rs)))

\* maxProperTime(r0, rs) of the first draft
maxProperTimeToHorizon(r0, rs) ==
  Mul(FallPrefactor(r0, rs), Acos(Sqrt(Div(rs, r0))))

properTimeAt(x, r0, rs) ==
  Mul(FallPrefactor(r0, rs),
      Add(Acos(Sqrt(x)), Sqrt(Mul(x, Sub(One, x)))))

properTime(r, r0, rs) ==
  IF Ge(r, r0) THEN Zero
  ELSE IF Le(r, rs) THEN maxProperTimeToHorizon(r0, rs)
  ELSE properTimeAt(Div(r, r0), r0, rs)

\* for (let i = 0; i < 100; i++)
SearchIterations == 100

\* the locals of radiusFromProperTime before its loop, or its early returns
SearchStart(tau, r0, rs) ==
  IF Ge(tau, maxProperTimeToHorizon(r0, rs))
  THEN [pc |-> "done", tau |-> tau, r0 |-> r0, rs |-> rs, lo |-> rs, hi |-> r0,
        i |-> 0, r |-> rs, n |-> PosInf]
  ELSE IF Le(tau, Zero)
  THEN [pc |-> "done", tau |-> tau, r0 |-> r0, rs |-> rs, lo |-> rs, hi |-> r0,
        i |-> 0, r |-> r0, n |-> radiusToN(r0, rs)]
  ELSE [pc |-> "search", tau |-> tau, r0 |-> r0, rs |-> rs, lo |-> rs, hi |-> r0,
        i |-> 0, r |-> Zero, n |-> Zero]

\* the return after the loop
SearchResult(s, r) == [s EXCEPT !.pc = "done", !.r = r, !.n = radiusToN(r, s.rs)]

\* if (hi - lo < rs * 1e-15) break
SearchTested(s) ==
  IF Lt(Sub(s.hi, s.lo), Mul(s.rs, Num(1, -15)))
  THEN SearchResult(s, Div(Add(s.lo, s.hi), Two))
  ELSE s

\* the body of the loop with the two halves exchanged
SearchHalvedTowards(s, mid) ==
  SearchTested(IF Lt(properTime(mid, s.r0, s.rs), s.tau)
               THEN [s EXCEPT !.hi = mid, !.i = s.i + 1]
               ELSE [s EXCEPT !.lo = mid, !.i = s.i + 1])

\* the body of the loop at mid
SearchHalved(s, mid) ==
  SearchTested(IF Lt(properTime(mid, s.r0, s.rs), s.tau)
               THEN [s EXCEPT !.lo = mid, !.i = s.i + 1]
               ELSE [s EXCEPT !.hi = mid, !.i = s.i + 1])

\* one pass through the head and the body of the loop, and the return
SearchStep(s) ==
  IF s.i < SearchIterations
  THEN SearchHalved(s, Div(Add(s.lo, s.hi), Two))
  ELSE SearchResult(s, Div(Add(s.lo, s.hi), Two))

\* horizon radii and starting radii above them
HorizonRadii == {Two}
StartRadii == {Num(3, 0), Ten, Num(100, 0)}

\* proper times: parts of the time to the horizon, and times outside it
SearchTimes(r0, rs) ==
  {Mul(maxProperTimeToHorizon(r0, rs), Num(k, -2)) : k \in {1, 25, 50, 75, 99, 100, 200}}
    \cup {Zero, Neg(One)}

\* radiusFromProperTime(tau, r0, rs)
RadiusCall(tau, r0, rs) ==
  /\ Ready
  /\ call' = [op |-> "radiusFromProperTime", args |-> <<tau, r0, rs>>]
  /\ ret' = NoRet
  /\ solver' = SearchStart(tau, r0, rs)
  /\ UNCHANGED <<engine, appVars>>

\* one iteration of its loop; the last one returns
RadiusStep ==
  /\ solver.pc = "search"
  /\ solver' = SearchStep(solver)
  /\ UNCHANGED <<engine, call, ret, appVars>>

RadiusNext ==
  \/ \E rs \in HorizonRadii : \E r0 \in StartRadii :
       \E tau \in SearchTimes(r0, rs) : RadiusCall(tau, r0, rs)
  \/ RadiusStep
  \/ Return

RadiusSpec == Init /\ [][RadiusNext]_vars

\* ------------------------------------------------------------------------
\* The playback controls of the sidebar (SimulationControls.vue)
\* ------------------------------------------------------------------------
\* units.ts: the constants, to six digits (c is 299792458 m/s)
G == Num(6674, -14)
LightSpeed == Num(299792, 3)
M_SUN == Num(1989, 27)

\* const mass = ref<number>(10)
Mass == Ten

\* createUnits(mass): rs_m / c, with rs_m = 2 * G * M_kg / (c * c)
timeScale ==
  Div(Div(Mul(Mul(Two, G), Mul(Mass, M_SUN)), Mul(LightSpeed, LightSpeed)),
      LightSpeed)

tauToSeconds(tau) == Mul(tau, timeScale)

\* speedOptions, by position in the array: 1 is '1e-81s', 32 is 'Complete
\* in 1min'
OneMinute == 32

secondsPerTick(i) ==
  IF i <= 26 THEN Num(1, 3 * i - 84)
  ELSE IF i = 27 THEN Num(1, -3)
  ELSE IF i = 28 THEN One
  ELSE IF i = 29 THEN Num(60, 0)
  ELSE IF i = 30 THEN Num(3600, 0)
  ELSE IF i = 31 THEN Num(86400, 0)
  ELSE Zero

\* getSmallerTimescale returns null
NoOption == 0

getSmallerTimescale(i) ==
  IF i <= 1 THEN NoOption
  ELSE IF i - 1 = OneMinute THEN NoOption
  ELSE i - 1

\* secondsDelta / props.tauToSeconds(1)
tauDeltaOf(secondsDelta) == Div(secondsDelta, tauToSeconds(One))

\* computeNTauDelta from x on
computeNTauDeltaAt(x, cur) ==
  IF Ge(x, One) THEN Sub(Num(100, 0), cur)
  ELSE IF Lt(x, Num(1, -10)) THEN Div(x, LN10)
  ELSE Neg(Log10(Sub(One, x)))

computeNTauDelta(cur, secondsDelta, tMax) ==
  IF Le(cur, Zero) THEN Div(tauDeltaOf(secondsDelta), Mul(tMax, LN10))
  ELSE computeNTauDeltaAt(Div(tauDeltaOf(secondsDelta),
                              Mul(tMax, Pow10(Neg(cur)))), cur)

\* option.getNTauDelta(): finalNTau / totalTicks for 'Complete in 1min'
getNTauDelta(i, cur, tMax) ==
  IF i = OneMinute THEN Div(Num(100, 0), Mul(Num(60, 0), Num(30, 0)))
  ELSE computeNTauDelta(cur, secondsPerTick(i), tMax)

\* option.secondsPerTick / props.tauToSeconds(1)
tauPerTick(i) == Div(secondsPerTick(i), tauToSeconds(One))

\* the timescale has no stop point: tauPerTick >= props.tauMax
NoStop(i, tMax) == i # OneMinute /\ Ge(tauPerTick(i), tMax)

\* stopNTau of step and skipToEnd
StopPoint(i, tMax) ==
  IF i = OneMinute THEN Num(20, 0) ELSE Log10(Div(tMax, tauPerTick(i)))

\* stopNTau of animate
AnimateStop(ctl, tMax) ==
  IF ctl.stopOneTickBefore THEN StopPoint(ctl.selectedSpeed, tMax)
  ELSE Num(100, 0)

\* what a handler leaves: its refs, and whether it called emitNTauUpdate
\* with the log-time it kept
Kept(ctl) == [ctl |-> ctl, emits |-> FALSE]
Emitting(ctl) == [ctl |-> ctl, emits |-> TRUE]

\* stop()
Stopped(ctl) == [ctl EXCEPT !.isRunning = FALSE]

\* animate at the stop point: switch to the smaller timescale, or stop
AtStopPoint(ctl) ==
  IF /\ ctl.autoDownscale
     /\ ctl.stopOneTickBefore
     /\ getSmallerTimescale(ctl.selectedSpeed) # NoOption
  THEN [ctl EXCEPT !.selectedSpeed = getSmallerTimescale(@)]
  ELSE Stopped(ctl)

\* animate from newNTau on, without the clamp to the stop point
animateToUnclamped(ctl, stopNTau, newNTau) ==
  IF ~isFinite(newNTau) THEN Kept(AtStopPoint(ctl))
  ELSE Emitting(Moved(ctl, newNTau))

\* animate from newNTau on
animateTo(ctl, stopNTau, newNTau) ==
  IF Ge(newNTau, stopNTau) \/ ~isFinite(newNTau)
  THEN IF Lt(ctl.currentNTau, stopNTau)
       THEN Emitting(AtStopPoint(Moved(ctl, stopNTau)))
       ELSE Kept(AtStopPoint(ctl))
  ELSE Emitting(Moved(ctl, newNTau))

\* animate from nTauDelta on
animateBy(ctl, stopNTau, nTauDelta) ==
  IF ~isFinite(nTauDelta) \/ Le(nTauDelta, Zero) THEN Kept(Stopped(ctl))
  ELSE animateTo(ctl, stopNTau, Add(ctl.currentNTau, nTauDelta))

\* animate, in a frame at least FRAME_INTERVAL after the last one
animate(ctl, tMax) ==
  IF ctl.stopOneTickBefore /\ NoStop(ctl.selectedSpeed, tMax)
  THEN Kept(Stopped(ctl))
  ELSE animateBy(ctl, AnimateStop(ctl, tMax),
                 getNTauDelta(ctl.selectedSpeed, ctl.currentNTau, tMax))

\* step: if (newNTau > stopNTau || !isFinite(newNTau)) newNTau = stopNTau
stepTo(stopNTau, newNTau) ==
  IF Gt(newNTau, stopNTau) \/ ~isFinite(newNTau) THEN stopNTau ELSE newNTau

\* step from nTauDelta on
stepBy(ctl, stopNTau, nTauDelta) ==
  IF ~isFinite(nTauDelta) \/ Le(nTauDelta, Zero) THEN Kept(ctl)
  ELSE Emitting(Moved(ctl, stepTo(stopNTau, Add(ctl.currentNTau, nTauDelta))))

RECURSIVE step(_, _)
\* step from stopNTau on
stepFrom(ctl, tMax, stopNTau) ==
  IF Ge(ctl.currentNTau, stopNTau)
  THEN IF ctl.autoDownscale /\ getSmallerTimescale(ctl.selectedSpeed) # NoOption
       THEN step([ctl EXCEPT !.selectedSpeed = getSmallerTimescale(@)], tMax)
       ELSE Kept(ctl)
  ELSE stepBy(ctl, stopNTau,
              getNTauDelta(ctl.selectedSpeed, ctl.currentNTau, tMax))

step(ctl, tMax) ==
  IF NoStop(ctl.selectedSpeed, tMax) THEN Kept(ctl)
  ELSE stepFrom(ctl, tMax, StopPoint(ctl.selectedSpeed, tMax))

skipToEnd(ctl, tMax) ==
  IF NoStop(ctl.selectedSpeed, tMax) THEN Kept(ctl)
  ELSE IF Gt(StopPoint(ctl.selectedSpeed, tMax), ctl.currentNTau)
  THEN Emitting(Moved(ctl, StopPoint(ctl.selectedSpeed, tMax)))
  ELSE Kept(ctl)

onSliderInput(ctl, value, tMax) ==
  Emitting(Moved(ctl, controlsTauToNTau(Mul(Div(value, Num(100, 0)), tMax), tMax)))

\* the watcher of autoDownscale, with the checkbox left as it is
autoDownscaleUnwatched(ctl, enabled) == ctl

\* the watcher of autoDownscale
autoDownscaleWatched(ctl, enabled) ==
  IF enabled THEN [ctl EXCEPT !.stopOneTickBefore = TRUE] ELSE ctl

\* A handler of the controls has run: what it emitted reaches the App
\* through the v-model of the sidebar, and the new prop sets off the watcher
\* of the controls.
Handled(r) ==
  /\ currentNTau' = IF r.emits THEN r.ctl.currentNTau ELSE currentNTau
  /\ controls' = IF r.emits
                 THEN emitNTauUpdate(r.ctl, engine.cfg, currentNTau, r.ctl.currentNTau)
                 ELSE r.ctl
  /\ UNCHANGED <<kernelVars, settings, photons, activePhotonId, isPhotonAnimating>>

\* a handler that changes refs of the controls only
Switched(ctl) ==
  /\ controls' = ctl
  /\ UNCHANGED <<kernelVars, settings, currentNTau, photons, activePhotonId,
                 isPhotonAnimating, now>>

\* Ticks shown in full: the frames of the playback, the clicks on Step and
\* the frames of the photon in one run.
MaxTicks == 3

\* speeds picked in the selector, positions the progress slider is dragged to
Speeds == {OneMicrosecond, 27, OneMinute}
SliderProgress == {Num(99, 0), Num(100, 0)}

\* the Start and Stop buttons
Start == ~controls.isRunning /\ Switched([controls EXCEPT !.isRunning = TRUE])
Stop == controls.isRunning /\ Switched(Stopped(controls))

\* a frame of the playback
AnimateTick ==
  /\ controls.isRunning
  /\ now <= MaxTicks
  /\ Handled(animate(controls, tauMax(engine.cfg)))
  /\ now' = now + 1

\* the Step button, disabled while the playback runs
Step ==
  /\ ~controls.isRunning
  /\ now <= MaxTicks
  /\ Handled(step(controls, tauMax(engine.cfg)))
  /\ now' = now + 1

\* the Skip to End button, disabled while the playback runs
SkipToEnd ==
  /\ ~controls.isRunning
  /\ Handled(skipToEnd(controls, tauMax(engine.cfg)))
  /\ UNCHANGED now

\* the progress slider
SliderInput(value) ==
  /\ Handled(onSliderInput(controls, value, tauMax(engine.cfg)))
  /\ UNCHANGED now

\* the speed selector, disabled while the playback runs
SelectSpeed(i) ==
  /\ ~controls.isRunning
  /\ i # controls.selectedSpeed
  /\ Switched([controls EXCEPT !.selectedSpeed = i])

\* the checkbox "Stop 1 tick before horizon"
ToggleStopOneTickBefore ==
  /\ ~(controls.isRunning \/ controls.autoDownscale)
  /\ Switched([controls EXCEPT !.stopOneTickBefore = ~@])

\* the checkbox "Auto-switch to smaller timescale at stop point"
ToggleAutoDownscale ==
  /\ ~controls.isRunning
  /\ Switched(autoDownscaleWatched([controls EXCEPT !.autoDownscale = ~@],
                                   ~controls.autoDownscale))

\* a frame of the photon animation of the App
PhotonTick == now <= MaxTicks /\ animatePhoton

PlaybackNext ==
  \/ Start
  \/ Stop
  \/ AnimateTick
  \/ Step
  \/ SkipToEnd
  \/ \E value \in SliderProgress : SliderInput(value)
  \/ \E i \in Speeds : SelectSpeed(i)
  \/ ToggleStopOneTickBefore
  \/ ToggleAutoDownscale

PlaybackSpec == AppInit /\ [][PlaybackNext]_vars

\* The playback and the photon animation side by side, with the progress
\* slider and the position sliders left alone.
TickNext ==
  \/ Start
  \/ Stop
  \/ AnimateTick
  \/ Step
  \/ \E i \in Speeds : SelectSpeed(i)
  \/ EmitPhoton
  \/ PhotonTick

TickSpec == AppInit /\ [][TickNext]_vars

\* ------------------------------------------------------------------------
\* The position sliders alone (Controls.vue)
\* ------------------------------------------------------------------------
\* positions of the two sliders, which run from -10 to 2 in steps of 0.1
Positions ==
  {Num(-10, 0), Num(-5, 0), Neg(Two), Num(-11, -1), Neg(One), Num(-9, -1),
   Num(-1, -1), Zero, Num(1, -1), One, Num(15, -1), Two}

ConfigNext ==
  \/ \E value \in Positions : SetFaller(value)
  \/ \E value \in Positions : SetObserver(value)

ConfigSpec == AppInit /\ [][ConfigNext]_vars

\* ------------------------------------------------------------------------
\* Properties
\* ------------------------------------------------------------------------
Running == solver.pc \in {"expand", "bisect"}
\* a getPhotonIntersectDelta call has returned
Returned == call.op = "getPhotonIntersectDelta" /\ solver.pc = "done"
tauEmitArg == call.args[1]

\* the calls of physics.ts, which are made without an engine
PhysicsOps == {"nToRadius", "photonN", "photonNInward"}

\* C1: construction with closenessObserver >= closenessFaller throws, with
\* closenessObserver < closenessFaller it yields an engine of that
\* configuration, and no call other than the constructor ever throws.
C1_ConstructionValidates ==
  /\ call.op = "constructor" =>
       LET c == Config(call.args[1], call.args[2])
       IN /\ Ge(c.nObserver, c.nFaller) => ret.kind = "error" /\ ~engine.ok
          /\ Lt(c.nObserver, c.nFaller) =>
               ret.kind # "error" /\ engine.ok /\ engine.cfg = c
  /\ call.op # "constructor" => ret.kind # "error"
  /\ call.op \notin {"none", "constructor"} \cup PhysicsOps => engine.ok

\* the observer placed exactly at the faller's start is rejected
C1_Witness ==
  /\ call.op = "constructor"
  /\ Eq(call.args[1], call.args[2])
  /\ ret.kind = "error"

\* the steps that remain, at most, before a running call returns
Rank(s) ==
  IF s.pc = "expand" THEN (MaxAttempts - s.attempts) + BisectIterations + 3
  ELSE IF s.pc = "bisect" THEN (BisectIterations - s.i) + 1
  ELSE 0

\* C3: getPhotonIntersectDelta terminates for every argument: the while loop
\* makes at most 100 attempts, the for loop at most 60 iterations, every
\* iteration brings the return nearer, and the call returns.
C3_Terminates ==
  /\ [](solver.attempts <= MaxAttempts /\ solver.i <= BisectIterations)
  /\ [][Running => Rank(solver') < Rank(solver)]_vars
  /\ (Running ~> solver.pc = "done")

\* a call with a NaN argument ran both loops to their end and returned
C3_Witness ==
  /\ Returned
  /\ IsNaN(tauEmitArg)
  /\ solver.i = BisectIterations

\* C5: when the while loop ends without a time at which the photon has caught
\* the faller (the attempts are used up, or the upper bound passed 1e100 or
\* is not finite), the call returns +Infinity as a value and the for loop
\* does not run.
C5_NoConvergenceIsInfinity ==
  [][(/\ solver.pc = "expand"
      /\ solver'.pc # "expand"
      /\ \/ solver.attempts >= MaxAttempts
         \/ ~Caught(engine.cfg, solver.tEmit, solver.tHigh))
     => (/\ solver'.pc = "done"
         /\ solver'.i = 0
         /\ ret' = Number(PosInf))]_vars

\* all 100 doublings were used and +Infinity came back
C5_Witness ==
  /\ Returned
  /\ solver.attempts = MaxAttempts
  /\ solver.i = 0
  /\ ret = Number(PosInf)

\* the upper bound passed 1e100 before the attempts were used up
C5_WitnessLimit ==
  /\ Returned
  /\ solver.attempts < MaxAttempts
  /\ Gt(solver.tHigh, NoConvergence)
  /\ solver.i = 0
  /\ ret = Number(PosInf)
\* the closeness of the faller and of the photon emitted at observer time
\* tauEmit, both at observer time tauCurrent
FallerAt(c, tauCurrent) ==
  fallerNAtCoordinateTime(c, observerTauToCoordinateTime(c, tauCurrent))
PhotonAt(c, tauEmit, tauCurrent) == getObserverPhotonN(c, tauEmit, tauCurrent)

\* the solver's tolerance, at the precision of the numbers of this module
CrossingTolerance == Num(1, -1)

Within(a, b, tol) == Le(Sub(a, b), tol) /\ Le(Sub(b, a), tol)

\* C2: for tauEmit >= 0 and a finite result D, D is positive, the photon's
\* closeness at tauEmit + D equals the faller's within the tolerance, and at
\* the times before it that the search visited (its final lower bound, and
\* half the delay) the photon is strictly behind the faller.
C2_InterceptIsFirstCrossing ==
  (Returned /\ Ge(tauEmitArg, Zero) /\ isFinite(ret.v)) =>
    LET c == engine.cfg
        D == ret.v
        tauCatch == Add(tauEmitArg, D)
        tauHalf == Add(tauEmitArg, Div(D, Two))
    IN /\ Gt(D, Zero)
       /\ Within(PhotonAt(c, tauEmitArg, tauCatch), FallerAt(c, tauCatch),
                 CrossingTolerance)
       /\ Lt(PhotonAt(c, tauEmitArg, tauHalf), FallerAt(c, tauHalf))
       /\ Lt(photonNInward(c.nObserver, solver.tEmit, solver.tLow),
             fallerNAtCoordinateTime(c, solver.tLow))

\* the argument of the non-convergence scenario: 1e-50 before tauMax
LateEmission == Returned /\ tauEmitArg = Sub(tauMax(engine.cfg), Num(1, -50))

\* the while loop ended without a time at which the photon caught the faller
ExpansionFailed ==
  /\ solver.i = 0
  /\ \/ solver.attempts >= MaxAttempts
     \/ Gt(solver.tHigh, NoConvergence)
     \/ ~isFinite(solver.tHigh)

\* C4 as stated: an emission within 1e-50 of tauMax returns +Infinity.
C4_LateEmissionIsInfinity == LateEmission => ret.v = PosInf

\* C4, amended: an emission within 1e-50 of tauMax returns a value (C3: no
\* hanging, C1: no throwing); the value is +Infinity exactly when the while
\* loop ended without a catch, and otherwise it is the outcome of all 60
\* bisections, finite and positive when the emission's coordinate time is
\* finite.
C4_LateEmissionIsOrdinary ==
  LateEmission =>
    /\ ret.v = PosInf <=> ExpansionFailed
    /\ ~ExpansionFailed => solver.i = BisectIterations
    /\ (~ExpansionFailed /\ isFinite(solver.tEmit)) =>
         isFinite(ret.v) /\ Gt(ret.v, Zero)

\* the late emission got a finite delay
C4_Witness ==
  /\ LateEmission
  /\ isFinite(ret.v)
  /\ Gt(ret.v, Zero)
  /\ solver.i = BisectIterations

\* the late emission got +Infinity after 100 doublings
C4_WitnessInfinity ==
  /\ LateEmission
  /\ ret.v = PosInf
  /\ solver.attempts = MaxAttempts

\* C6: when the faller's closeness at the emission's coordinate time is
\* +Infinity (the faller is at the horizon), the call returns +Infinity and
\* neither loop has run.
C6_FallerAtHorizonIsInfinity ==
  (Returned /\ FallerAt(engine.cfg, tauEmitArg) = PosInf) =>
    /\ ret.v = PosInf
    /\ solver.attempts = 0
    /\ solver.i = 0

\* C7: the value returned is +Infinity or a number >= 0, whatever tauEmit.
C7_ResultIsDelayOrInfinity ==
  Returned => \/ ret.v = PosInf
              \/ isFinite(ret.v) /\ Ge(ret.v, Zero)

\* the arguments before tau that are emission times
Earlier(c, tau) == {t \in TimeValues(c) : Ge(t, Zero) /\ Lt(t, tau)}

\* C8: where the emission's coordinate time is finite, a call with
\* tauEmit > 0 returns at least what the call returns for every emission
\* time in 0..tauEmit, and the call for 0 returns a finite value, less than
\* the one for 0.999 * tauMax.
C8_LaterEmissionsTakeLonger ==
  (Returned /\ isFinite(solver.tEmit)) =>
    LET c == engine.cfg
    IN /\ Gt(tauEmitArg, Zero) =>
            \A tau1 \in Earlier(c, tauEmitArg) :
               Le(getPhotonIntersectDelta(c, tau1), ret.v)
       /\ tauEmitArg = Zero => isFinite(ret.v)
       /\ tauEmitArg = Mul(tauMax(c), Num(999, -3)) =>
            Lt(getPhotonIntersectDelta(c, Zero), ret.v)

\* C9: getState with tau < 0 returns what getState(0) returns, and with
\* tau > tauMax what getState(tauMax) returns.
C9_StateClampsTau ==
  call.op = "getState" =>
    LET c == engine.cfg
        tau == call.args[1]
    IN /\ Lt(tau, Zero) => ret = Snapshot(getState(c, Zero))
       /\ Gt(tau, tauMax(c)) => ret = Snapshot(getState(c, tauMax(c)))

\* C10: getStateByNTau with nTau < 0 returns the snapshot of nTau = 0: the
\* faller at its start, both proper times 0, coordinate time 0.
C10_StateByLogTimeClamps ==
  (call.op = "getStateByNTau" /\ Lt(call.args[1], Zero)) =>
    /\ ret.s.object1.n = engine.cfg.nFaller
    /\ ret.s.object1.tau = Zero
    /\ ret.s.coordinateTime = Zero
    /\ ret.s.object2.tau = Zero

\* a getState call has returned its snapshot for an argument that is a
\* number of the extended reals (finite, +Infinity or -Infinity)
StateReturned == call.op = "getState" /\ ~IsNaN(call.args[1])

\* C11: the snapshot of getState(tau) has atHorizon = TRUE exactly when
\* tau >= tauMax; in those snapshots the faller's closeness, the coordinate
\* time and the observer's proper time are all +Infinity, in every other
\* snapshot all three are finite; at tau = 0 the faller's closeness is
\* nFaller and the coordinate time is exactly 0.
C11_HorizonAndDivergence ==
  StateReturned =>
    /\ ret.s.atHorizon <=> Ge(call.args[1], tauMax(engine.cfg))
    /\ ret.s.atHorizon =>
         /\ ret.s.object1.n = PosInf
         /\ ret.s.coordinateTime = PosInf
         /\ ret.s.object2.tau = PosInf
    /\ ~ret.s.atHorizon =>
         /\ isFinite(ret.s.object1.n)
         /\ isFinite(ret.s.coordinateTime)
         /\ isFinite(ret.s.object2.tau)
    /\ call.args[1] = Zero =>
         /\ ret.s.object1.n = engine.cfg.nFaller
         /\ ret.s.coordinateTime = Zero

\* getState(tauMax) of an observer whose clock rate rounds to 0: the horizon
\* is reported and the observer's proper time is +Infinity
C11_Witness ==
  /\ StateReturned
  /\ call.args[1] = tauMax(engine.cfg)
  /\ clockRate(engine.cfg.nObserver) = Zero
  /\ ret.s.atHorizon
  /\ ret.s.object2.tau = PosInf

\* getState just below tauMax: no horizon, the faller past its start
C11_WitnessBefore ==
  /\ StateReturned
  /\ Gt(call.args[1], Zero)
  /\ ~ret.s.atHorizon
  /\ Gt(ret.s.object1.n, engine.cfg.nFaller)
  /\ Gt(ret.s.coordinateTime, Zero)


\* |a|
Magnitude(a) == IF Lt(a, Zero) THEN Neg(a) ELSE a

\* the relative error allowed between two computations of one quantity
\* at the precision of the numbers of this module
RelativeTolerance == Num(1, -2)

\* a and b are the same value, or finite and equal within the tolerance
Same(a, b) ==
  \/ a = b
  \/ /\ isFinite(a)
     /\ isFinite(b)
     /\ Le(Magnitude(Sub(a, b)),
           Mul(RelativeTolerance, Max(One, Max(Magnitude(a), Magnitude(b)))))

\* the snapshot of getState at the proper time of the last call's nTau
StateAtLogTime == getState(engine.cfg, nTauToTau(engine.cfg, call.args[1]))

\* C12: for nTau >= 0, getStateByNTau(nTau) and getState(nTauToTau(nTau))
\* give the same faller closeness, which is nFaller + nTau, the same
\* coordinate time, the same observer proper time and the same atHorizon.
C12_StateQueriesAgree ==
  (call.op = "getStateByNTau" /\ Ge(call.args[1], Zero)) =>
    /\ ret.s.atHorizon <=> StateAtLogTime.atHorizon
    /\ ret.s.object1.n = Add(engine.cfg.nFaller, call.args[1])
    /\ Same(ret.s.object1.n, StateAtLogTime.object1.n)
    /\ Same(ret.s.coordinateTime, StateAtLogTime.coordinateTime)
    /\ Same(ret.s.object2.tau, StateAtLogTime.object2.tau)


\* C13: for nTau in 0..25, tauToNTau(nTauToTau(nTau)) is nTau, and for tau
\* in [0, tauMax), nTauToTau(tauToNTau(tau)) is tau, both up to rounding.
C13_TimeInverseLaw ==
  /\ (/\ call.op = "nTauToTau"
      /\ Ge(call.args[1], Zero)
      /\ Le(call.args[1], Num(25, 0)))
       => Same(tauToNTau(engine.cfg, ret.v), call.args[1])
  /\ (/\ call.op = "tauToNTau"
      /\ Ge(call.args[1], Zero)
      /\ Lt(call.args[1], tauMax(engine.cfg)))
       => Same(nTauToTau(engine.cfg, ret.v), call.args[1])


\* C14: for finite n in -5..30, radiusToN(nToRadius(n)), with the horizon
\* radius 1, is n up to rounding.
C14_CoordinateInverseLaw ==
  (/\ call.op = "nToRadius"
   /\ Ge(call.args[1], Num(-5, 0))
   /\ Le(call.args[1], Num(30, 0)))
    => Same(radiusToN(ret.v, One), call.args[1])


\* the faller's closeness at proper time tau
FallerN(c, tau) == fallingN(tau, c.nFaller, tauMax(c))

\* C15: the faller's closeness never decreases as tau grows: it is nFaller
\* for tau <= 0, +Infinity for tau >= tauMax, and for every tau the
\* closeness at each smaller tau is at most the closeness at tau.
C15_FallingNeverDecreases ==
  StateReturned =>
    /\ ret.s.object1.n = FallerN(engine.cfg, call.args[1])
    /\ Le(call.args[1], Zero) => ret.s.object1.n = engine.cfg.nFaller
    /\ Ge(call.args[1], tauMax(engine.cfg)) => ret.s.object1.n = PosInf
    /\ \A tau1 \in TimeValues(engine.cfg) :
         Lt(tau1, call.args[1]) =>
           Le(FallerN(engine.cfg, tau1), ret.s.object1.n)

\* between 0 and tauMax the faller is strictly closer than at an earlier
\* positive time
C15_Witness ==
  /\ StateReturned
  /\ Lt(call.args[1], tauMax(engine.cfg))
  /\ isFinite(ret.s.object1.n)
  /\ \E tau1 \in TimeValues(engine.cfg) :
       /\ Gt(tau1, Zero)
       /\ Lt(tau1, call.args[1])
       /\ Gt(FallerN(engine.cfg, tau1), engine.cfg.nFaller)
       /\ Lt(FallerN(engine.cfg, tau1), ret.s.object1.n)


\* C16: the observer's clock rate is strictly between 0 and 1, so in every
\* snapshot with a finite coordinate time t > 0 the observer's proper time
\* is positive and less than t.
C16_DilationBound ==
  (/\ StateReturned
   /\ isFinite(ret.s.coordinateTime)
   /\ Gt(ret.s.coordinateTime, Zero))
    => /\ Gt(clockRate(engine.cfg.nObserver), Zero)
       /\ Lt(clockRate(engine.cfg.nObserver), One)
       /\ Gt(ret.s.object2.tau, Zero)
       /\ Lt(ret.s.object2.tau, ret.s.coordinateTime)


\* C17: a photon asked for at a time not after its emission is at its
\* emission point: photonN and photonNInward with tCurrent <= tEmit return
\* nEmit, getObserverPhotonN with tauCurrent <= tauEmit returns nObserver,
\* and none of them throws.
C17_NoBackwardTravel ==
  /\ (call.op \in {"photonN", "photonNInward"} /\ Le(call.args[3], call.args[2]))
       => ret = Number(call.args[1])
  /\ (call.op = "getObserverPhotonN" /\ Le(call.args[2], call.args[1]))
       => ret = Number(engine.cfg.nObserver)


\* the distance budget left to the inbound photon
Budget(nEmit, tEmit, tCurrent) ==
  Sub(Pow10(Neg(nEmit)), Div(Sub(tCurrent, tEmit), LN10))

\* C18: for a photon emitted inward at nEmit, tEmit, the closeness that
\* photonNInward returns for tCurrent is at least nEmit and at least what
\* it returns for every earlier time, and it is +Infinity exactly when the
\* budget 10^-nEmit - (tCurrent - tEmit) / ln 10 is <= 0; so once it is
\* +Infinity it stays +Infinity.
C18_InboundPhotonAdvances ==
  (call.op = "photonNInward" /\ ~IsNaN(call.args[3])) =>
    /\ Ge(ret.v, call.args[1])
    /\ ret.v = PosInf <=> Le(Budget(call.args[1], call.args[2], call.args[3]), Zero)
    /\ \A t1 \in PhotonTimes :
         Lt(t1, call.args[3]) =>
           Le(photonNInward(call.args[1], call.args[2], t1), ret.v)


\* what a call of operation op with arguments args returns on an engine of
\* configuration c, computed from c and args alone
Outcome(c, op, args) ==
  CASE op = "getState" -> Snapshot(getState(c, args[1]))
    [] op = "getStateByNTau" -> Snapshot(getStateByNTau(c, args[1]))
    [] op = "tauToNTau" -> Number(tauToNTau(c, args[1]))
    [] op = "nTauToTau" -> Number(nTauToTau(c, args[1]))
    [] op = "getObserverPhotonN" -> Number(getObserverPhotonN(c, args[1], args[2]))
    [] op = "getPhotonIntersectDelta" -> Number(getPhotonIntersectDelta(c, args[1]))
    [] op = "nToRadius" -> Number(nToRadius(args[1]))
    [] op = "photonN" -> Number(photonN(args[1], args[2], args[3]))
    [] op = "photonNInward" -> Number(photonNInward(args[1], args[2], args[3]))

\* a query has returned
QueryReturned ==
  /\ call.op \notin {"none", "constructor"}
  /\ solver.pc \in {"idle", "done"}

InFlight == {i \in DOMAIN photons : photons[i].status # "arrived"}

\* C20: one photon at a time. In every reachable state of the App at most
\* one photon has a status other than 'arrived', activePhotonId is non-null
\* exactly while such a photon exists, and no photon is emitted (the Emit
\* Photon button is disabled) while activePhotonId is non-null.
C20_OnePhotonAtATime ==
  /\ [](Cardinality(InFlight) <= 1)
  /\ [](activePhotonId # NoPhoton <=> InFlight # {})
  /\ [][Len(photons') > Len(photons) => activePhotonId = NoPhoton]_vars

\* a second photon is on its way back after the first one has arrived
C20_Witness ==
  /\ Len(photons) = 2
  /\ photons[1].status = "arrived"
  /\ photons[2].status = "reflected"
  /\ activePhotonId = photons[2].id


\* C21: auto-advance and automatic stop. After emitPhoton the time advances
\* on animation frames while the photon is in flight; with frames scheduled
\* fairly every emitted photon eventually has status 'arrived'; a frame in
\* which a photon arrives stops the auto-advance (isPhotonAnimating false,
\* activePhotonId null), and while it is stopped nothing but the slider
\* changes currentNTau.
\* a reflected photon whose return leg is timed from an infinite coordinate time
Stranded(i) ==
  /\ i \in DOMAIN photons
  /\ photons[i].status = "reflected"
  /\ ReturnStart(engine.cfg, photons[i]) = PosInf

\* no frame makes a stranded photon arrive
StrandedForever ==
  [][\A i \in 1..MaxPhotons :
       Stranded(i) => photons'[i].status = "reflected" /\ isPhotonAnimating']_vars

C22_StayVisible ==
  /\ [][\A i \in DOMAIN photons :
          photons[i].status = "arrived" =>
            /\ i \in DOMAIN photons'
            /\ photons'[i].id = photons[i].id
            /\ photons'[i].status = "arrived"]_vars
  /\ [](\A i \in DOMAIN photons :
          photons[i].status = "arrived" =>
            Eq(photons[i].currentN, settings.nObserver))


\* C23: changing the configuration resets the simulation. After a step that
\* changes nFaller or nObserver the engine is the one of the new
\* configuration, the simulation time is 0, and no photon is in flight.
C23_ConfigChangeResets ==
  [][settings' # settings =>
       /\ engine' = [ok |-> TRUE, cfg |-> settings']
       /\ currentNTau' = Zero
       /\ \A i \in DOMAIN photons' : photons'[i].status = "arrived"]_vars


\* the inbound photon is strictly behind the faller at time t
Behind(c, tEmit, t) ==
  Lt(photonNInward(c.nObserver, tEmit, t), fallerNAtCoordinateTime(c, t))

\* C24: bracket invariant of the intercept solver. Whenever the bisection
\* phase is entered, and after each of its iterations, tLow <= tHigh, the
\* inbound photon is strictly behind the faller at tLow, and at tHigh the
\* photon's closeness is >= the faller's or the photon is at the horizon.
\* Stated for emission times from 0 on, +Infinity (the observer's time in a
\* state at the horizon) included.
C24_BracketInvariant ==
  (solver.pc = "bisect" /\ Ge(tauEmitArg, Zero)) =>
    /\ Le(solver.tLow, solver.tHigh)
    /\ Behind(engine.cfg, solver.tEmit, solver.tLow)
    /\ Caught(engine.cfg, solver.tEmit, solver.tHigh)


\* radiusFromProperTime has returned
RadiusReturned == call.op = "radiusFromProperTime" /\ solver.pc = "done"

\* C25: radiusFromProperTime inverts properTime. For r0 > rs and
\* 0 < tau < maxProperTime(r0, rs) it returns r with rs < r < r0 and
\* properTime(r, r0, rs) equal to tau up to the tolerance; for tau <= 0 it
\* returns r0, and for tau >= maxProperTime rs with n = +Infinity.
C25_SearchInvertsProperTime ==
  RadiusReturned =>
    IF Le(solver.tau, Zero) THEN solver.r = solver.r0
    ELSE IF Ge(solver.tau, maxProperTimeToHorizon(solver.r0, solver.rs))
    THEN solver.r = solver.rs /\ solver.n = PosInf
    ELSE /\ Lt(solver.rs, solver.r)
         /\ Lt(solver.r, solver.r0)
         /\ Same(properTime(solver.r, solver.r0, solver.rs), solver.tau)


\* C26: with the playback (animate, step) and the photon animation running
\* in any order, and neither the progress slider nor the position sliders
\* touched, the log-time of the App never decreases from one step to the
\* next.
C26_TimeNeverDecreases == [][Le(currentNTau, currentNTau')]_vars


\* old <= v <= max(old, stopNTau)
InRange(old, v, stopNTau) == Le(old, v) /\ Le(v, Max(old, stopNTau))

\* a move by nTauDelta from old reaches or passes stopNTau
WouldPass(old, nTauDelta, stopNTau) ==
  /\ isFinite(nTauDelta) /\ Gt(nTauDelta, Zero)
  /\ Lt(old, stopNTau)
  /\ (Ge(Add(old, nTauDelta), stopNTau) \/ ~isFinite(Add(old, nTauDelta)))

\* a move with timescale i from old to v, with stop point stopNTau
MoveTo(old, v, i, stopNTau, tMax) ==
  /\ InRange(old, v, stopNTau)
  /\ WouldPass(old, getNTauDelta(i, old, tMax), stopNTau) => v = stopNTau

\* C27: every animate frame, every step and every skipToEnd leaves the
\* log-time of the controls at a value v with old <= v <= max(old, stopNTau),
\* where stopNTau is the stop point of the timescale the move is made with
\* (20 for 'Complete in 1min', log10(tauMax / tauPerTick) otherwise, 100 for
\* animate with "stop one tick before" off); a move that would reach or pass
\* the stop point lands on it, and a timescale without a stop point moves
\* nothing.
C27_PlaybackStaysInRange ==
  [][LET old == controls.currentNTau
         v == controls'.currentNTau
         tMax == tauMax(engine.cfg)
     IN /\ AnimateTick =>
             IF controls.stopOneTickBefore /\ NoStop(controls.selectedSpeed, tMax)
             THEN v = old
             ELSE MoveTo(old, v, controls.selectedSpeed,
                         AnimateStop(controls, tMax), tMax)
        /\ Step =>
             IF NoStop(controls'.selectedSpeed, tMax)
             THEN v = old
             ELSE MoveTo(old, v, controls'.selectedSpeed,
                         StopPoint(controls'.selectedSpeed, tMax), tMax)
        /\ SkipToEnd =>
             IF NoStop(controls.selectedSpeed, tMax)
             THEN v = old
             ELSE /\ InRange(old, v, StopPoint(controls.selectedSpeed, tMax))
                  /\ Gt(StopPoint(controls.selectedSpeed, tMax), old)
                       => v = StopPoint(controls.selectedSpeed, tMax)]_vars

\* an animate frame that would have passed 100 has put the log-time on 100,
\* which no other handler of the controls sets
C27_Witness ==
  /\ controls.currentNTau = Num(100, 0)
  /\ currentNTau = Num(100, 0)
  /\ ~controls.stopOneTickBefore


\* C30: in every reachable state of the controls, auto-downscale on implies
\* "stop one tick before" on.
C30_AutoDownscaleNeedsStop ==
  controls.autoDownscale => controls.stopOneTickBefore

\* auto-downscale was switched on again after a playback with both boxes
\* off (only such a playback puts the log-time on 100), and the box "stop
\* one tick before" is on
C30_Witness ==
  /\ controls.autoDownscale
  /\ controls.stopOneTickBefore
  /\ controls.currentNTau = Num(100, 0)


\* the place of a photon in its life cycle: 1 for (traveling, in), 2 for
\* (reflected, out), 3 for (arrived, out), 0 for any other pair
Stage(p) ==
  IF p.status = "traveling" /\ p.direction = "in" THEN 1
  ELSE IF p.status = "reflected" /\ p.direction = "out" THEN 2
  ELSE IF p.status = "arrived" /\ p.direction = "out" THEN 3
  ELSE 0

\* C28: the (status, direction) of every photon is one of (traveling, in),
\* (reflected, out), (arrived, out). Only a frame of the animation, through
\* updatePhotons, changes it, and only one place forward: from traveling to
\* reflected exactly when the closeness it computed has reached the
\* faller's, which becomes the emission point of the way back and the
\* current log-time the time of the reflection; from reflected to arrived
\* exactly when the closeness it computed has reached the observer's. No
\* step changes a photon that has arrived.
C28_PhotonLifeCycle ==
  /\ [](\A i \in DOMAIN photons : Stage(photons[i]) \in 1..3)
  /\ [][\A i \in DOMAIN photons :
          LET p == photons[i]
              q == photons'[i]
              state == getStateByNTau(engine.cfg, currentNTau')
              updated == now' # now
          IN /\ Stage(q) \in {Stage(p), Stage(p) + 1}
             /\ Stage(q) # Stage(p) => updated
             /\ Stage(p) = 3 => q = p
             /\ Stage(p) = 1 /\ Stage(q) = 2 =>
                  /\ Ge(q.currentN, state.object1.n)
                  /\ q.nEmit = state.object1.n
                  /\ q.targetReachedAt = currentNTau'
             /\ Stage(p) = 1 /\ Stage(q) = 1 /\ updated =>
                  ~Ge(q.currentN, state.object1.n)
             /\ Stage(p) = 2 /\ Stage(q) = 3 =>
                  /\ Le(OutboundN(engine.cfg, p, state.coordinateTime),
                        settings.nObserver)
                  /\ q.currentN = settings.nObserver
             /\ Stage(p) = 2 /\ Stage(q) = 2 /\ updated =>
                  ~Le(q.currentN, settings.nObserver)]_vars

\* a photon has been reflected at the faller and has arrived; a second
\* photon is on its way while the first is kept as it arrived
C28_Witness ==
  /\ Len(photons) = 2
  /\ photons[1].status = "arrived"
  /\ isFinite(photons[1].targetReachedAt)
  /\ photons[2].status # "arrived"
  /\ now > photons[2].id


\* C29: after any sequence of faller and observer slider updates from the
\* default configuration, nObserver < nFaller, and the engine is the one
\* constructed from the current positions: no construction has thrown.
C29_SlidersStayOrdered ==
  /\ Lt(settings.nObserver, settings.nFaller)
  /\ ~ConstructorThrows(settings)
  /\ engine = [ok |-> TRUE, cfg |-> settings]

\* the faller's clamp has acted: with the observer at -10 the faller was
\* dragged onto it and stands 0.1 above, at a position that is none of the
\* positions dragged to
C29_Witness ==
  /\ settings = Config(Num(-99, -1), Num(-10, 0))
  /\ Num(-99, -1) \notin Positions
  /\ engine.cfg = settings
  /\ currentNTau = Zero
====
